---- MODULE Spec2Model ----
(***************************************************************************)
(* Model of the generation orchestrator of gemini-material-transfer:       *)
(* generateContentWithImage / generateContentWithTwoImages (retry loops    *)
(* around one model call), getAIClient, and the response extractors of     *)
(* src/src/services/aiService.ts.                                          *)
(*                                                                         *)
(* One behaviour is one invocation of one of the two functions by a        *)
(* caller that afterwards extracts text or an image from the response.     *)
(* Every action is one run-to-completion step of the async function: from  *)
(* the resumption after an await up to the next await, return or throw.    *)
(***************************************************************************)
EXTENDS Integers, Sequences, FiniteSets, TLC

VARIABLES
    apiKey,       \* process.env.API_KEY is set
    pc,           \* position of the invocation
    fn,           \* "one" = generateContentWithImage, "two" = generateContentWithTwoImages
    onProgress,   \* a progress callback was supplied
    extractor,    \* what the caller extracts from the response: "text" or "image"
    toRead,       \* fileToPart conversions still awaited
    uniquePrompt, \* const uniquePrompt (the random tokens appended to the prompt)
    textPart,     \* textPart.text (the random tokens appended to the prompt)
    attempts,     \* let attempts
    result,       \* the response returned to the caller
    err,          \* the error the invocation rejected with
    extracted,    \* outcome of the caller's extract*FromResponse
    calls,        \* history: number of ai.models.generateContent calls issued
    waits,        \* history: number of 1 s backoff timers started
    progress,     \* history: attempt numbers passed to onProgress, in order
    outcomes,     \* history: classification of each completed model call, in order
    firstSent,    \* history: text of the first model call
    lastSent,     \* history: text of the latest model call
    imageFile,    \* imageFile / imageFile1: the fraction of the source image it holds, in hundredths
    sentCrops     \* history: what each model call's first image part held

vars == <<apiKey, pc, fn, onProgress, extractor, toRead, uniquePrompt, textPart,
          attempts, result, err, extracted, calls, waits, progress, outcomes,
          firstSent, lastSent, imageFile, sentCrops>>

(* State of one run of onGenerate / applyMaterial with its model calls *)
VARIABLES
    version,      \* which applyMaterial runs: "parallel" or "sequential"
    apc,          \* position of onGenerate / applyMaterial
    an,           \* per model call of applyMaterial: position and outcome
    loc,          \* per activation of generateContentWith*: its local variables
    aerr,         \* the error applyMaterial rejected with
    failedBy,     \* history: the call whose failure made applyMaterial fail
    shown,        \* uiState.error: which message is shown
    loading       \* uiState.isLoading

applyVars == <<version, apc, an, loc, aerr, failedBy, shown, loading>>

(* State of the scene uploader: useImageState, BaseImageUploader and
   BrushImageUploader with the DOM elements they drive *)
VARIABLES
    sceneImageFile, \* useImageState.sceneImageFile: 0 (null) or an image
    sceneMask,      \* useImageState.sceneMask: NoMask (null) or a data URL
    canvas,         \* the canvas element: its size and its painted pixels
    imgNatural,     \* size of the image the img element currently holds
    imgPending,     \* the image the img element is loading, 0 if none
    onload,         \* img.onload: the updateCanvas closure last assigned
    maskLoads,      \* mask images created by updateCanvas, not yet loaded
    isDrawing,      \* BrushImageUploader state
    lastPos,        \* BrushImageUploader lastPos.current
    cleared         \* history: handleClearMask ran and no gesture began since

maskVars == <<sceneImageFile, sceneMask, canvas, imgNatural, imgPending, onload,
              maskLoads, isDrawing, lastPos, cleared>>

(* Inputs and results of the geometry functions *)
VARIABLES
    coordsIn, coordsOut,   \* getScaledCoords
    cropIn, cropOut,       \* cropSquareAroundMarker
    fitIn, fitOut          \* resizeImage / createModelInputImage / cropToOriginalAspectRatio

geoVars == <<coordsIn, coordsOut, cropIn, cropOut, fitIn, fitOut>>

(* State of one run of drawRedBordersFromMask *)
VARIABLES
    data,         \* imageData of the temporary canvas: the pixels with alpha > 0
    edges,        \* const edges, in insertion order
    visited,      \* const visited
    paths,        \* the paths begun with ctx.beginPath(), each a list of pixels
    current,      \* <<currentX, currentY>> of the path being followed
    nextEdge,     \* position of edges.forEach in edges
    tpc           \* position of the run

edgeVars == <<data, edges, visited, paths, current, nextEdge, tpc>>

(* State of App: its two hooks and the applyMaterial it awaits *)
VARIABLES
    ui,           \* useUIState
    img,          \* useImageState; resultImageUrl is held as what it was made from
    job           \* the arguments of the applyMaterial in flight, NoInputs if none

appVars == <<ui, img, job>>

\* the variables the retry-loop actions of a single invocation leave alone
otherVars == <<applyVars, maskVars, geoVars, edgeVars, appVars>>

\* the variables the steps of onGenerate / applyMaterial leave alone
applyFrame == <<vars, maskVars, geoVars, edgeVars, appVars>>

\* the variables the uploader's handlers leave alone
maskFrame == <<vars, applyVars, geoVars, edgeVars, appVars>>

\* the variables the geometry functions leave alone
geoFrame == <<vars, applyVars, maskVars, edgeVars, appVars>>

\* the variables a run of drawRedBordersFromMask leaves alone
edgeFrame == <<vars, applyVars, maskVars, geoVars, appVars>>

\* the variables App's handlers leave alone
appFrame == <<vars, applyVars, maskVars, geoVars, edgeVars>>

----------------------------------------------------------------------------
(* Bounds of the model *)

\* random tokens (salt, creativity, session seed) are drawn from 1..MaxToken
MaxToken == 2
\* the history variables stop growing at this length / value
MaxHist == 7

\* the scene uploader: images (each of a size of its own) and raster cells
MaxImage == 2
MaxCell == 2

\* mask images loading at the same time
MaxPending == 2

\* the geometry functions: natural sides, display sides, target dimensions
MaxSide == 4
MaxRect == 3
MaxTarget == 4

\* drawRedBordersFromMask: canvas.width and canvas.height
CanvasWidth == 5
CanvasHeight == 5
\* pixels of a scattered selection
MaxDots == 3

\* const targetDimension = 1024 (createModelInputImage), MAX_IMAGE_DIMENSION
ModelDimension == 1024

(* Program constants *)

\* const maxAttempts = 5 in generateContentWithImage
MaxAttemptsImage == 5
\* const maxAttempts = 3 in generateContentWithTwoImages
MaxAttemptsTwoImages == 3

Tokens == 1..MaxToken
Functions == {"one", "two"}

\* what the caller's image file holds of the source image, in hundredths of
\* its shorter side: the whole image, or a square crop around the marker
SourceCrops == {100, 45}
NoFraction == 0
FinishReasons == {"STOP", "SAFETY", "RECITATION"}

maxAttempts(f) == IF f = "one" THEN MaxAttemptsImage ELSE MaxAttemptsTwoImages

\* number of fileToPart awaits before the loop
FileParts(f) == IF f = "one" THEN 1 ELSE 2

----------------------------------------------------------------------------
(* Values *)

NoText == <<>>
NoResponse == [id |-> 0, finish |-> "none", text |-> FALSE, image |-> FALSE]
NoError == [type |-> "none", hasAttempts |-> FALSE, attempts |-> 0]

\* new RecitationError(message, attempts)
RecitationError(n) == [type |-> "RecitationError", hasAttempts |-> TRUE, attempts |-> n]
\* new Error(message): getAIClient, fileToPart, extract*FromResponse
GenericError == [type |-> "Error", hasAttempts |-> FALSE, attempts |-> 0]
\* whatever ai.models.generateContent rejected with
TransportError == [type |-> "TransportError", hasAttempts |-> FALSE, attempts |-> 0]

\* A response of the model. text: candidates[0].content.parts[0].text is
\* truthy; image: some part of candidates[0] carries inlineData; id: the
\* number of the call it answers.
Response(i, fin, t, im) == [id |-> i, finish |-> fin, text |-> t, image |-> im]

\* saturating history counter / sequence
Bump(n) == IF n < MaxHist THEN n + 1 ELSE n
Record(s, e) == IF Len(s) < MaxHist THEN Append(s, e) ELSE s

----------------------------------------------------------------------------
(* Pure pieces of the code *)

\* variant: the key is never checked
getAIClientNoCheck(key) == FALSE

\* getAIClient: throws when process.env.API_KEY is falsy
getAIClientThrows(key) == ~key

\* `${prompt}\n\n[...]\n[Session: ${randomSeed}_${timestamp}]`
UniquePromptOf(seed) == <<seed>>

\* variant: the retry resends the unsalted prompt
SaltedPromptUnsalted(f, up, salt, creativity) == up

\* the text assigned to textPart.text after a RECITATION response
SaltedPrompt(f, up, salt, creativity) ==
    IF f = "one" THEN up \o <<salt, creativity>> ELSE up \o <<salt>>

\* variant: a response without content is treated as a rejection too
IsRecitationOrEmpty(r) == r.finish = "RECITATION" \/ (~r.text /\ ~r.image)

\* variant: the finish reason compared with a string the API never sends
IsRecitationMisspelt(r) == r.finish = "recitation"

\* candidate?.finishReason === 'RECITATION'
IsRecitation(r) == r.finish = "RECITATION"

\* variant: while (attempts <= maxAttempts)
LoopGuardOffByOne(a, max) == a <= max

\* while (attempts < maxAttempts)
LoopGuard(a, max) == a < max

\* variant: the budget counts as used up one attempt early
ExhaustedOneEarly(a, max) == a + 1 >= max

\* if (attempts >= maxAttempts) after an increment
Exhausted(a, max) == a >= max

\* variant: the RECITATION path forgets attempts++
AfterRecitationForgotten(a) == a

\* attempts++ on the RECITATION path
AfterRecitation(a) == a + 1

\* variant: the catch block forgets attempts++
AfterCatchForgotten(a) == a

\* attempts++ in the catch block
AfterCatch(a) == a + 1

\* extractTextFromResponse
extractTextFromResponse(r) ==
    IF ~r.text THEN GenericError ELSE NoError

\* extractImageFromResponse
extractImageFromResponse(r) ==
    IF r.finish = "RECITATION" THEN RecitationError(1)
    ELSE IF ~r.image THEN GenericError
    ELSE NoError

NotExtracted == [done |-> FALSE, error |-> NoError]

\* what the model did on a call, as the stub would tell it
OutcomeOf(r) == IF r.finish = "RECITATION" THEN "recitation" ELSE "ok"

----------------------------------------------------------------------------
(* Initial state: nothing invoked yet; the environment has, or lacks, a key *)

OrchInit ==
    /\ apiKey \in BOOLEAN
    /\ pc = "Idle"
    /\ fn = "one"
    /\ onProgress = FALSE
    /\ extractor = "text"
    /\ toRead = 0
    /\ uniquePrompt = NoText
    /\ textPart = NoText
    /\ attempts = 0
    /\ result = NoResponse
    /\ err = NoError
    /\ extracted = NotExtracted
    /\ calls = 0
    /\ waits = 0
    /\ progress = <<>>
    /\ outcomes = <<>>
    /\ firstSent = NoText
    /\ lastSent = NoText
    /\ imageFile = NoFraction
    /\ sentCrops = <<>>

----------------------------------------------------------------------------
(* The retry loop *)

\* variant: the caller is notified before the first attempt as well
EnterLoopNotifiesFirst(a, txt) ==
    IF LoopGuard(a, maxAttempts(fn))
    THEN /\ pc' = "Sending"
         /\ err' = err
         /\ progress' = IF onProgress THEN Record(progress, a + 1) ELSE progress
         /\ calls' = Bump(calls)
         /\ firstSent' = IF calls = 0 THEN txt ELSE firstSent
         /\ lastSent' = txt
         /\ sentCrops' = Record(sentCrops, imageFile)
    ELSE /\ pc' = "Failed"
         /\ err' = RecitationError(maxAttempts(fn))
         /\ UNCHANGED <<progress, calls, firstSent, lastSent, sentCrops>>

\* Top of the while loop with attempts = a and textPart.text = txt: either
\* notify and issue the next model call (the function then awaits it), or,
\* the guard being false, fall out of the loop to the throw after it.
EnterLoop(a, txt) ==
    IF LoopGuard(a, maxAttempts(fn))
    THEN /\ pc' = "Sending"
         /\ err' = err
         /\ progress' = IF a > 0 /\ onProgress THEN Record(progress, a + 1) ELSE progress
         /\ calls' = Bump(calls)
         /\ firstSent' = IF calls = 0 THEN txt ELSE firstSent
         /\ lastSent' = txt
         /\ sentCrops' = Record(sentCrops, imageFile)
    ELSE /\ pc' = "Failed"
         /\ err' = RecitationError(maxAttempts(fn))
         /\ UNCHANGED <<progress, calls, firstSent, lastSent, sentCrops>>

\* variant: the catch block retries at once, without the timer
CaughtNoBackoff(a, e) ==
    LET a2 == AfterCatch(a) IN
    /\ attempts' = a2
    /\ waits' = waits
    /\ IF Exhausted(a2, maxAttempts(fn))
       THEN /\ pc' = "Failed"
            /\ err' = e
            /\ UNCHANGED <<progress, calls, firstSent, lastSent, sentCrops>>
       ELSE EnterLoop(a2, textPart)

\* variant: the catch block wraps whatever it caught in a RecitationError
CaughtWrapsError(a, e) ==
    LET a2 == AfterCatch(a) IN
    /\ attempts' = a2
    /\ UNCHANGED <<progress, calls, firstSent, lastSent, sentCrops>>
    /\ IF Exhausted(a2, maxAttempts(fn))
       THEN /\ pc' = "Failed"
            /\ err' = RecitationError(a2)
            /\ waits' = waits
       ELSE /\ pc' = "Backoff"
            /\ err' = err
            /\ waits' = Bump(waits)

\* The catch block, entered with attempts = a and the caught error e:
\* rethrow e when the budget is used up, otherwise start the 1 s timer.
Caught(a, e) ==
    LET a2 == AfterCatch(a) IN
    /\ attempts' = a2
    /\ UNCHANGED <<progress, calls, firstSent, lastSent, sentCrops>>
    /\ IF Exhausted(a2, maxAttempts(fn))
       THEN /\ pc' = "Failed"
            /\ err' = e
            /\ waits' = waits
       ELSE /\ pc' = "Backoff"
            /\ err' = err
            /\ waits' = Bump(waits)

\* variant: the RecitationError is built from the count before attempts++
RejectedStaleCount(a, salt, creativity) ==
    LET a1 == AfterRecitation(a) IN
    IF fn = "one" /\ Exhausted(a1, maxAttempts(fn))
    THEN /\ Caught(a1, RecitationError(a))
         /\ textPart' = textPart
    ELSE /\ attempts' = a1
         /\ textPart' = SaltedPrompt(fn, uniquePrompt, salt, creativity)
         /\ waits' = waits
         /\ EnterLoop(a1, textPart')

\* The RECITATION branch, entered with attempts already read as a.
\* generateContentWithImage throws inside the try block once the budget is
\* used up, so its own catch block handles that RecitationError;
\* generateContentWithTwoImages only salts the prompt and continues.
Rejected(a, salt, creativity) ==
    LET a1 == AfterRecitation(a) IN
    IF fn = "one" /\ Exhausted(a1, maxAttempts(fn))
    THEN /\ Caught(a1, RecitationError(a1))
         /\ textPart' = textPart
    ELSE /\ attempts' = a1
         /\ textPart' = SaltedPrompt(fn, uniquePrompt, salt, creativity)
         /\ waits' = waits
         /\ EnterLoop(a1, textPart')

----------------------------------------------------------------------------
(* Actions *)

\* The caller invokes one of the two functions: getAIClient, then the
\* prompt is made unique and the first fileToPart is awaited.
Invoke ==
    /\ UNCHANGED otherVars
    /\ pc = "Idle"
    /\ \E f \in Functions, cb \in BOOLEAN, ex \in {"text", "image"}, seed \in Tokens,
          crop \in SourceCrops :
         /\ (f = "two" => ex = "image")
         /\ imageFile' = crop
         /\ fn' = f
         /\ onProgress' = cb
         /\ extractor' = ex
         /\ IF getAIClientThrows(apiKey)
            THEN /\ pc' = "Failed"
                 /\ err' = GenericError
                 /\ UNCHANGED <<toRead, uniquePrompt, textPart>>
            ELSE /\ pc' = "Reading"
                 /\ err' = err
                 /\ toRead' = FileParts(f)
                 /\ uniquePrompt' = UniquePromptOf(seed)
                 /\ textPart' = UniquePromptOf(seed)
    /\ UNCHANGED <<apiKey, attempts, result, extracted, calls, waits, progress,
                   outcomes, firstSent, lastSent, sentCrops>>

\* A fileToPart resolves; after the last one the loop is entered with
\* attempts = 0.
PartRead ==
    /\ UNCHANGED otherVars
    /\ pc = "Reading"
    /\ toRead' = toRead - 1
    /\ IF toRead = 1
       THEN /\ attempts' = 0
            /\ EnterLoop(0, textPart)
       ELSE UNCHANGED <<pc, err, attempts, progress, calls, firstSent, lastSent, sentCrops>>
    /\ UNCHANGED <<imageFile, apiKey, fn, onProgress, extractor, uniquePrompt, textPart,
                   result, extracted, waits, outcomes>>

\* A fileToPart rejects (file read error, malformed data URL): outside the
\* try block, so the invocation rejects at once.
PartReadFails ==
    /\ UNCHANGED otherVars
    /\ pc = "Reading"
    /\ pc' = "Failed"
    /\ err' = GenericError
    /\ UNCHANGED <<imageFile, apiKey, fn, onProgress, extractor, toRead, uniquePrompt,
                   textPart, attempts, result, extracted, calls, waits,
                   progress, outcomes, firstSent, lastSent, sentCrops>>

\* ai.models.generateContent resolves with a response, which is classified.
ModelResponds ==
    /\ UNCHANGED otherVars
    /\ pc = "Sending"
    /\ \E fin \in FinishReasons, t \in BOOLEAN, im \in BOOLEAN, salt \in Tokens,
          creativity \in Tokens :
         LET r == Response(calls, fin, t, im) IN
         /\ outcomes' = Record(outcomes, OutcomeOf(r))
         /\ IF IsRecitation(r)
            THEN /\ Rejected(attempts, salt, creativity)
                 /\ result' = result
            ELSE /\ pc' = "Succeeded"
                 /\ result' = r
                 /\ UNCHANGED <<attempts, textPart, err, waits, progress, calls,
                                firstSent, lastSent, sentCrops>>
    /\ UNCHANGED <<imageFile, apiKey, fn, onProgress, extractor, toRead, uniquePrompt,
                   extracted>>

\* ai.models.generateContent rejects (network or parse failure).
ModelThrows ==
    /\ UNCHANGED otherVars
    /\ pc = "Sending"
    /\ outcomes' = Record(outcomes, "error")
    /\ Caught(attempts, TransportError)
    /\ UNCHANGED <<imageFile, apiKey, fn, onProgress, extractor, toRead, uniquePrompt,
                   textPart, result, extracted>>

\* The 1 s timer fires: next iteration of the loop.
BackoffElapsed ==
    /\ UNCHANGED otherVars
    /\ pc = "Backoff"
    /\ EnterLoop(attempts, textPart)
    /\ UNCHANGED <<imageFile, apiKey, fn, onProgress, extractor, toRead, uniquePrompt,
                   textPart, attempts, result, extracted, waits, outcomes>>

\* The caller extracts what it needs from the returned response.
Extract ==
    /\ UNCHANGED otherVars
    /\ pc = "Succeeded"
    /\ ~extracted.done
    /\ extracted' = [done |-> TRUE,
                     error |-> IF extractor = "text"
                               THEN extractTextFromResponse(result)
                               ELSE extractImageFromResponse(result)]
    /\ UNCHANGED <<imageFile, apiKey, pc, fn, onProgress, extractor, toRead, uniquePrompt,
                   textPart, attempts, result, err, calls, waits, progress,
                   outcomes, firstSent, lastSent, sentCrops>>

----------------------------------------------------------------------------
(* The scene uploader: useImageState, BaseImageUploader, BrushImageUploader.
   An image stands for its pixel size (two images never share a size), a
   raster for its size and the set of raster cells with non-zero alpha. *)

Images == 1..MaxImage
Cells == 1..MaxCell

NoFile == 0         \* sceneImageFile = null
NoPos == 0          \* lastPos.current = null
NaNPos == -1        \* coordinates computed while the image has no natural size
DefaultDim == 0     \* width and height of a canvas element never sized
DimOf(i) == i       \* naturalWidth x naturalHeight of image i

NoMask == [dim |-> -1, pix |-> {}]
BlankCanvas == [dim |-> DefaultDim, pix |-> {}]
NoHandler == [set |-> FALSE, mask |-> NoMask]

\* canvas.toDataURL(): the mask carries the canvas's size and pixels
toDataURL(cv) == [dim |-> cv.dim, pix |-> cv.pix]

\* ctx.drawImage(maskImage, 0, 0): source-over at the mask's own size
drawImage(cv, m) == [cv EXCEPT !.pix = @ \cup m.pix]

\* getScaledCoords as draw uses it: a raster point, NaN while naturalWidth is 0
CoordsOf(p, natural) == IF natural = 0 THEN NaNPos ELSE p

\* draw(e) of BrushImageUploader: returns the canvas and lastPos it leaves
draw(drawing, cv, lp, p, natural) ==
    IF ~drawing THEN [canvas |-> cv, lastPos |-> lp]
    ELSE LET coords == CoordsOf(p, natural) IN
         [canvas |-> IF lp \in Cells /\ coords \in Cells
                     THEN [cv EXCEPT !.pix = @ \cup {lp, coords}]
                     ELSE cv,
          lastPos |-> coords]

\* updateCanvas of BaseImageUploader's effect, closed over maskUrl
updateCanvas(mask, natural, loads) ==
    [canvas |-> [dim |-> natural, pix |-> {}],
     loads |-> IF mask = NoMask THEN loads ELSE loads \cup {mask}]

\* img.complete as the effect may read it after the src attribute changed:
\* still true while the element holds a loaded image and the new request has
\* not started, false otherwise
CompleteSeen ==
    IF imgPending = NoFile /\ imgNatural # 0 THEN BOOLEAN ELSE {FALSE}

\* App renders with a new object URL for the scene image: the img element
\* starts loading it, and the effect on [imageUrl, maskUrl] runs with the
\* canvas cv the handler left.
Rendered(file, mask, cv) ==
    /\ imgPending' = file
    /\ \E seen \in CompleteSeen :
          IF seen
          THEN LET u == updateCanvas(mask, imgNatural, maskLoads) IN
               /\ Cardinality(u.loads) <= MaxPending
               /\ canvas' = u.canvas
               /\ maskLoads' = u.loads
               /\ onload' = onload
          ELSE /\ canvas' = cv
               /\ maskLoads' = maskLoads
               /\ onload' = [set |-> TRUE, mask |-> mask]

MaskParked ==
    /\ sceneImageFile = NoFile
    /\ sceneMask = NoMask
    /\ canvas = BlankCanvas
    /\ imgNatural = 0
    /\ imgPending = NoFile
    /\ onload = NoHandler
    /\ maskLoads = {}
    /\ isDrawing = FALSE
    /\ lastPos = NoPos
    /\ cleared = FALSE

\* handleSceneImageUpload: a new file, the mask reset. A first image mounts
\* fresh img and canvas elements.
Upload(i) ==
    /\ ~isDrawing
    /\ sceneImageFile' = i
    /\ sceneMask' = NoMask
    /\ cleared' = FALSE
    /\ IF sceneImageFile = NoFile
       THEN /\ imgPending' = i
            /\ onload' = [set |-> TRUE, mask |-> NoMask]
            /\ UNCHANGED <<canvas, maskLoads>>
       ELSE Rendered(i, NoMask, canvas)
    /\ UNCHANGED <<imgNatural, isDrawing, lastPos>>
    /\ UNCHANGED maskFrame

\* clearSceneImage: the img and canvas elements are unmounted
ClearImage ==
    /\ ~isDrawing
    /\ sceneImageFile # NoFile
    /\ sceneImageFile' = NoFile
    /\ sceneMask' = NoMask
    /\ canvas' = BlankCanvas
    /\ imgNatural' = 0
    /\ imgPending' = NoFile
    /\ onload' = NoHandler
    /\ maskLoads' = {}
    /\ cleared' = FALSE
    /\ UNCHANGED <<isDrawing, lastPos>>
    /\ UNCHANGED maskFrame

\* App renders again for a reason of its own (progress text, marker, modal)
Rerender ==
    /\ sceneImageFile # NoFile
    /\ Rendered(sceneImageFile, sceneMask, canvas)
    /\ UNCHANGED <<sceneImageFile, sceneMask, imgNatural, isDrawing, lastPos,
                   cleared>>
    /\ UNCHANGED maskFrame

\* The img element's load event: the stored handler, if any, runs
ImageLoaded ==
    /\ imgPending # NoFile
    /\ imgNatural' = DimOf(imgPending)
    /\ imgPending' = NoFile
    /\ IF onload.set
       THEN LET u == updateCanvas(onload.mask, DimOf(imgPending), maskLoads) IN
            /\ Cardinality(u.loads) <= MaxPending
            /\ canvas' = u.canvas
            /\ maskLoads' = u.loads
       ELSE UNCHANGED <<canvas, maskLoads>>
    /\ UNCHANGED <<sceneImageFile, sceneMask, onload, isDrawing, lastPos,
                   cleared>>
    /\ UNCHANGED maskFrame

\* maskImage.onload of one updateCanvas run
MaskImageLoaded(m) ==
    /\ m \in maskLoads
    /\ maskLoads' = maskLoads \ {m}
    /\ canvas' = drawImage(canvas, m)
    /\ UNCHANGED <<sceneImageFile, sceneMask, imgNatural, imgPending, onload,
                   isDrawing, lastPos, cleared>>
    /\ UNCHANGED maskFrame

\* startDrawing on mouse down / touch start: setIsDrawing(true), lastPos reset,
\* then draw(e), which still reads the isDrawing of the render that created it
PointerDown(p) ==
    /\ sceneImageFile # NoFile
    /\ ~isDrawing
    /\ LET d == draw(isDrawing, canvas, NoPos, p, imgNatural) IN
       /\ canvas' = d.canvas
       /\ lastPos' = d.lastPos
    /\ isDrawing' = TRUE
    /\ cleared' = FALSE
    /\ UNCHANGED <<sceneImageFile, sceneMask, imgNatural, imgPending, onload,
                   maskLoads>>
    /\ UNCHANGED maskFrame

\* draw on mouse move / touch move
PointerMove(p) ==
    /\ sceneImageFile # NoFile
    /\ isDrawing
    /\ LET d == draw(isDrawing, canvas, lastPos, p, imgNatural) IN
       /\ canvas' = d.canvas
       /\ lastPos' = d.lastPos
    /\ UNCHANGED <<sceneImageFile, sceneMask, imgNatural, imgPending, onload,
                   maskLoads, isDrawing, cleared>>
    /\ UNCHANGED maskFrame

\* stopDrawing on mouse up / mouse leave / touch end: the canvas is committed
\* as the mask; App renders when the mask changed
PointerUp ==
    /\ sceneImageFile # NoFile
    /\ isDrawing
    /\ sceneMask' = toDataURL(canvas)
    /\ isDrawing' = FALSE
    /\ lastPos' = NoPos
    /\ IF toDataURL(canvas) = sceneMask
       THEN UNCHANGED <<canvas, imgPending, onload, maskLoads>>
       ELSE Rendered(sceneImageFile, toDataURL(canvas), canvas)
    /\ UNCHANGED <<sceneImageFile, imgNatural, cleared>>
    /\ UNCHANGED maskFrame

\* handleClearMask (the button shows while maskUrl is set)
ClearMask ==
    /\ sceneImageFile # NoFile
    /\ sceneMask # NoMask
    /\ ~isDrawing
    /\ sceneMask' = NoMask
    /\ cleared' = TRUE
    /\ Rendered(sceneImageFile, NoMask, [canvas EXCEPT !.pix = {}])
    /\ UNCHANGED <<sceneImageFile, imgNatural, isDrawing, lastPos>>
    /\ UNCHANGED maskFrame

MaskNext ==
    \/ \E i \in Images : Upload(i)
    \/ ClearImage
    \/ Rerender
    \/ ImageLoaded
    \/ \E m \in maskLoads : MaskImageLoaded(m)
    \/ \E p \in Cells : PointerDown(p)
    \/ \E p \in Cells : PointerMove(p)
    \/ PointerUp
    \/ ClearMask

----------------------------------------------------------------------------
(* The geometry functions. Coordinates are exact fractions: a numerator per
   value over a common denominator; the code computes them in doubles. *)

Min(a, b) == IF a < b THEN a ELSE b
Max(a, b) == IF a > b THEN a ELSE b

\* Math.round(n / d) for d > 0: the nearest integer, halves upwards
Round(n, d) == (2 * n + d) \div (2 * d)

Sides == 1..MaxSide            \* natural widths and heights
RectSides == 1..MaxRect        \* widths and heights of the display element
RectLeft == 1                  \* containerRect.left
RectTop == 1                   \* containerRect.top
TargetDims == (1..MaxTarget) \cup {ModelDimension}
FractionsTenths == {0, 1, 4, 5, 10, 12}   \* sizeFraction in tenths (default 0.4)

NullCoords == [xn |-> 0, yn |-> 0, den |-> 0]
NoCoords == [done |-> FALSE, value |-> NullCoords]
NoCoordsIn == [present |-> FALSE, nW |-> 1, nH |-> 1, rW |-> 1, rH |-> 1, cx |-> 0, cy |-> 0]
NoCrop == [done |-> FALSE, x |-> 0, y |-> 0, size |-> 0]
NoCropIn == [W |-> 1, H |-> 1, px2 |-> 0, py2 |-> 0, f10 |-> 0]
NoRect == [x |-> 0, y |-> 0, w |-> 0, h |-> 0, den |-> 0]
NoFit == [done |-> FALSE, resized |-> NoRect, input |-> NoRect, content |-> NoRect,
          width |-> 0, height |-> 0]
NoFitIn == [W |-> 1, H |-> 1, T |-> 1]

\* getScaledCoords of MarkerImageUploader and BrushImageUploader (the same
\* code): null only without container or img; x = xn / den, y = yn / den
getScaledCoords(present, nW, nH, rW, rH, cx, cy) ==
    IF ~present THEN NullCoords
    ELSE IF nW * rH > nH * rW
         THEN \* fit to width: offsetX = 0, offsetY = (rH - rW * nH / nW) / 2
              [xn |-> 2 * (cx - RectLeft) * nW,
               yn |-> 2 * (cy - RectTop) * nW - (rH * nW - rW * nH),
               den |-> 2 * rW]
         ELSE \* fit to height: offsetY = 0, offsetX = (rW - rH * nW / nH) / 2
              [xn |-> 2 * (cx - RectLeft) * nH - (rW * nH - rH * nW),
               yn |-> 2 * (cy - RectTop) * nH,
               den |-> 2 * rH]

\* variant of the clamp that leaves the square where the marker puts it
ClampNone(x, side, cropSize) == x

\* Math.max(0, Math.min(x, side - cropSize))
ClampToBounds(x, side, cropSize) == Max(0, Min(x, side - cropSize))

\* cropSquareAroundMarker: the source square drawn from the image; the
\* marker is (px2 / 2, py2 / 2), sizeFraction is f10 / 10
cropSquareAroundMarker(W, H, px2, py2, f10) ==
    LET minSide == Min(W, H)
        clampedTenths == Min(10, Max(1, f10))
        cropSize == Round(minSide * clampedTenths, 10)
    IN [x |-> ClampToBounds(Round(px2 - cropSize, 2), W, cropSize),
        y |-> ClampToBounds(Round(py2 - cropSize, 2), H, cropSize),
        size |-> cropSize]

\* resizeImage: the rectangle the image is drawn into
resizeImage(W, H, T) ==
    IF W > H
    THEN [x |-> 0, y |-> T * (W - H), w |-> 2 * W * T, h |-> 2 * T * H, den |-> 2 * W]
    ELSE [x |-> T * (H - W), y |-> 0, w |-> 2 * T * W, h |-> 2 * H * T, den |-> 2 * H]

\* createModelInputImage: the rectangle the base image is drawn into
createModelInputImage(W, H) ==
    LET T == ModelDimension IN
    IF W > H
    THEN [x |-> 0, y |-> T * (W - H), w |-> 2 * W * T, h |-> 2 * T * H, den |-> 2 * W]
    ELSE [x |-> T * (H - W), y |-> 0, w |-> 2 * T * W, h |-> 2 * H * T, den |-> 2 * H]

\* variant of the crop that takes the content from the top left corner
cropFromCorner(W, H, T) ==
    IF W > H
    THEN [x |-> 0, y |-> 0, w |-> 2 * W * T, h |-> 2 * T * H, den |-> 2 * W]
    ELSE [x |-> 0, y |-> 0, w |-> 2 * T * W, h |-> 2 * H * T, den |-> 2 * H]

\* cropToOriginalAspectRatio: the source rectangle taken from the square
cropToOriginalAspectRatio(W, H, T) ==
    IF W > H
    THEN [x |-> 0, y |-> T * (W - H), w |-> 2 * W * T, h |-> 2 * T * H, den |-> 2 * W]
    ELSE [x |-> T * (H - W), y |-> 0, w |-> 2 * T * W, h |-> 2 * H * T, den |-> 2 * H]

\* canvas.width = value: the fraction is truncated to an integer
CanvasSide(n, den) == n \div den

GeoParked ==
    /\ coordsIn = NoCoordsIn
    /\ coordsOut = NoCoords
    /\ cropIn = NoCropIn
    /\ cropOut = NoCrop
    /\ fitIn = NoFitIn
    /\ fitOut = NoFit

CoordsInputs ==
    [present : BOOLEAN, nW : Sides, nH : Sides, rW : RectSides, rH : RectSides,
     cx : 0..(RectLeft + MaxRect + 1), cy : 0..(RectTop + MaxRect + 1)]

CropInputs ==
    [W : Sides, H : Sides, px2 : (-2)..(2 * MaxSide + 2), py2 : (-2)..(2 * MaxSide + 2),
     f10 : FractionsTenths]

FitInputs == [W : Sides, H : Sides, T : TargetDims]

\* a pointer event reaches handleMarkerClick / draw
PointerMapped ==
    /\ ~coordsOut.done
    /\ coordsOut' = [done |-> TRUE,
                     value |-> getScaledCoords(coordsIn.present, coordsIn.nW, coordsIn.nH,
                                               coordsIn.rW, coordsIn.rH,
                                               coordsIn.cx, coordsIn.cy)]
    /\ UNCHANGED <<coordsIn, cropIn, cropOut, fitIn, fitOut>>
    /\ UNCHANGED geoFrame

\* cropSquareAroundMarker is called
SquareCropped ==
    /\ ~cropOut.done
    /\ LET c == cropSquareAroundMarker(cropIn.W, cropIn.H, cropIn.px2, cropIn.py2,
                                       cropIn.f10)
       IN cropOut' = [done |-> TRUE, x |-> c.x, y |-> c.y, size |-> c.size]
    /\ UNCHANGED <<coordsIn, coordsOut, cropIn, fitIn, fitOut>>
    /\ UNCHANGED geoFrame

\* an image is padded to the square and the square is cropped back
PaddedAndCropped ==
    /\ ~fitOut.done
    /\ LET c == cropToOriginalAspectRatio(fitIn.W, fitIn.H, fitIn.T) IN
       fitOut' = [done |-> TRUE,
                  resized |-> resizeImage(fitIn.W, fitIn.H, fitIn.T),
                  input |-> IF fitIn.T = ModelDimension
                            THEN createModelInputImage(fitIn.W, fitIn.H)
                            ELSE NoRect,
                  content |-> c,
                  width |-> CanvasSide(c.w, c.den),
                  height |-> CanvasSide(c.h, c.den)]
    /\ UNCHANGED <<coordsIn, coordsOut, cropIn, cropOut, fitIn>>
    /\ UNCHANGED geoFrame

----------------------------------------------------------------------------
(* drawRedBordersFromMask: the edge pixels of the mask, found by neighbour
   checking, and the paths that follow them. A pixel is <<x, y>>. data holds
   the mask as drawn on the temporary canvas, which has the base image's
   size; the code reads one thing from it, whether alpha is 0. *)

Pixels == (0 .. CanvasWidth - 1) \X (0 .. CanvasHeight - 1)

NoPixel == <<-1, -1>>

\* a filled axis-aligned rectangle, corners included
Rect(x0, y0, x1, y1) ==
    {p \in Pixels : x0 <= p[1] /\ p[1] <= x1 /\ y0 <= p[2] /\ p[2] <= y1}

Rects ==
    {Rect(x0, y0, x1, y1) : x0 \in 0 .. CanvasWidth - 1, x1 \in 0 .. CanvasWidth - 1,
                            y0 \in 0 .. CanvasHeight - 1, y1 \in 0 .. CanvasHeight - 1}

\* the pixels off the border rows and columns
Inner == (1 .. CanvasWidth - 2) \X (1 .. CanvasHeight - 2)

\* the masks a run is given: a filled rectangle anywhere (it may touch the
\* border or cover the canvas), at most MaxDots pixels off the border (or
\* none), and the whole canvas but at most MaxDots such pixels
Masks ==
    LET Dots == {s \in SUBSET Inner : Cardinality(s) <= MaxDots}
    IN  Rects \cup Dots \cup {Pixels \ s : s \in Dots}

\* const neighbors, in the order the code lists them
Neighbors ==
    << <<-1, -1>>, <<0, -1>>, <<1, -1>>,
       <<-1, 0>>,             <<1, 0>>,
       <<-1, 1>>,  <<0, 1>>,  <<1, 1>> >>

Moved(p, d) == <<p[1] + d[1], p[2] + d[2]>>

\* every pixel with alpha > 0 taken for an edge pixel
IsEdgePixelFilled(d, p) == p \in d

\* the alpha > 0 test left out
IsEdgePixelAnyAlpha(d, p) == \E i \in 1 .. 8 : Moved(p, Neighbors[i]) \notin d

\* alpha > 0 and some neighbour has nalpha === 0
IsEdgePixel(d, p) ==
    /\ p \in d
    /\ \E i \in 1 .. 8 : Moved(p, Neighbors[i]) \notin d

\* the pixels the two for loops visit, in their order: y from 1 to
\* canvas.height - 2, and for each y, x from 1 to canvas.width - 2
ScanOrder ==
    IF CanvasWidth < 3 \/ CanvasHeight < 3 THEN <<>>
    ELSE [i \in 1 .. (CanvasWidth - 2) * (CanvasHeight - 2) |->
            <<1 + ((i - 1) % (CanvasWidth - 2)), 1 + ((i - 1) \div (CanvasWidth - 2))>>]

\* the Set edges after the loops, in insertion order
findEdges(d) == SelectSeq(ScanOrder, LAMBDA p : IsEdgePixel(d, p))

EdgeSet(es) == {es[i] : i \in 1 .. Len(es)}

\* the positions in neighbors of the pixels that are in edges and not in visited
Unvisited(es, v, c) ==
    {i \in 1 .. 8 : /\ Moved(c, Neighbors[i]) \in EdgeSet(es)
                    /\ Moved(c, Neighbors[i]) \notin v}

\* the first edge in insertion order that is not visited, neighbour or not
FirstUnvisitedAnywhere(es, v, c) ==
    LET i == CHOOSE j \in 1 .. Len(es) :
                 es[j] \notin v /\ \A k \in 1 .. j - 1 : es[k] \in v
    IN  es[i]

\* the neighbour the for loop breaks at
FirstUnvisited(es, v, c) ==
    LET i == CHOOSE j \in Unvisited(es, v, c) : \A k \in Unvisited(es, v, c) : j <= k
    IN  Moved(c, Neighbors[i])

EdgeParked ==
    /\ data = {}
    /\ edges = <<>>
    /\ visited = {}
    /\ paths = <<>>
    /\ current = NoPixel
    /\ nextEdge = 0
    /\ tpc = "parked"

\* lines 51-80: the two loops over the pixels
FindEdges ==
    /\ tpc = "scan"
    /\ edges' = findEdges(data)
    /\ nextEdge' = 1
    /\ tpc' = "forEach"
    /\ UNCHANGED <<data, visited, paths, current>>
    /\ UNCHANGED edgeFrame

\* edges.forEach callback on an edge not yet visited: beginPath, moveTo
BeginPath ==
    /\ tpc = "forEach"
    /\ nextEdge <= Len(edges)
    /\ edges[nextEdge] \notin visited
    /\ paths' = Append(paths, <<edges[nextEdge]>>)
    /\ current' = edges[nextEdge]
    /\ visited' = visited \cup {edges[nextEdge]}
    /\ tpc' = "walk"
    /\ UNCHANGED <<data, edges, nextEdge>>
    /\ UNCHANGED edgeFrame

\* edges.forEach callback on an edge a path already went through
SkipVisited ==
    /\ tpc = "forEach"
    /\ nextEdge <= Len(edges)
    /\ edges[nextEdge] \in visited
    /\ nextEdge' = nextEdge + 1
    /\ UNCHANGED <<data, edges, visited, paths, current, tpc>>
    /\ UNCHANGED edgeFrame

\* one turn of while (found) that finds a neighbour: lineTo, move on
FollowEdge ==
    /\ tpc = "walk"
    /\ Unvisited(edges, visited, current) # {}
    /\ LET n == FirstUnvisited(edges, visited, current)
       IN  /\ paths' = [paths EXCEPT ![Len(paths)] = Append(@, n)]
           /\ visited' = visited \cup {n}
           /\ current' = n
    /\ UNCHANGED <<data, edges, nextEdge, tpc>>
    /\ UNCHANGED edgeFrame

\* the turn of while (found) that finds none: stroke, the callback returns
StrokePath ==
    /\ tpc = "walk"
    /\ Unvisited(edges, visited, current) = {}
    /\ nextEdge' = nextEdge + 1
    /\ tpc' = "forEach"
    /\ UNCHANGED <<data, edges, visited, paths, current>>
    /\ UNCHANGED edgeFrame

\* edges.forEach returns: canvas.toBlob
TraceDone ==
    /\ tpc = "forEach"
    /\ nextEdge > Len(edges)
    /\ tpc' = "done"
    /\ UNCHANGED <<data, edges, visited, paths, current, nextEdge>>
    /\ UNCHANGED edgeFrame

EdgeNext ==
    \/ FindEdges
    \/ BeginPath
    \/ SkipVisited
    \/ FollowEdge
    \/ StrokePath
    \/ TraceDone

----------------------------------------------------------------------------
(* useUIState and useImageState, each a record of its useState cells, their
   callbacks as functions from state to state; and App, whose handlers call
   them around one applyMaterial in flight. A string | null cell holds a
   string or Nothing. *)

Nothing == "null"

\* the strings passed as messages; "" is falsy
UiTexts == {"", "retrying"}

\* x || y for strings
OrElse(x, y) == IF x = Nothing \/ x = "" THEN y ELSE x

UiInitial ==
    [isLoading |-> FALSE, error |-> Nothing, currentProgressMessage |-> "Processing...",
     debugImageUrl |-> Nothing, open |-> {}]

startLoading(u, initialMessage) ==
    [u EXCEPT !.isLoading = TRUE, !.error = Nothing,
              !.currentProgressMessage = OrElse(initialMessage, "Processing...")]

updateProgress(u, message) == [u EXCEPT !.currentProgressMessage = message]

stopLoading(u) == [u EXCEPT !.isLoading = FALSE]

\* variant: the error is set and the spinner left running
setErrorMessageKeepsLoading(u, message) == [u EXCEPT !.error = message]

setErrorMessage(u, message) == [u EXCEPT !.error = message, !.isLoading = FALSE]

clearError(u) == [u EXCEPT !.error = Nothing]

clearDebugData(u) == [u EXCEPT !.debugImageUrl = Nothing]

setDebugData(u, url) == [u EXCEPT !.debugImageUrl = OrElse(url, Nothing)]

setIsDebugModalOpen(u, m, o) ==
    [u EXCEPT !.open = IF o THEN @ \cup {m} ELSE @ \ {m}]

\* closeAllDebugModals and clearDebugData included
resetUIState(u) ==
    clearDebugData(
        [u EXCEPT !.isLoading = FALSE, !.error = Nothing,
                  !.currentProgressMessage = "Processing...", !.open = {}])

\* the arguments of applyMaterial; also what a result was generated from
NoInputs == [product |-> NoFile, marker |-> NoPos, scene |-> NoFile, mask |-> Nothing]

\* useImageState before any upload; resetImageState
ImgInitial ==
    [productImageFile |-> NoFile, sceneImageFile |-> NoFile,
     materialMarkerPosition |-> NoPos, sceneMask |-> Nothing,
     resultImageUrl |-> NoInputs]

areImagesUploaded(s) == s.productImageFile # NoFile /\ s.sceneImageFile # NoFile

canGenerate(s) == s.materialMarkerPosition # NoPos /\ s.sceneMask \notin {Nothing, ""}

\* what onGenerate's closure passes to applyMaterial
InputsOf(s) ==
    [product |-> s.productImageFile, marker |-> s.materialMarkerPosition,
     scene |-> s.sceneImageFile, mask |-> s.sceneMask]

AppParked ==
    /\ ui = UiInitial
    /\ img = ImgInitial
    /\ job = NoInputs

\* useUIState on its own: its callbacks called in any order
UiNext ==
    /\ \E m \in UiTexts \cup {Nothing}, d \in {"material", "scene", "result"},
          o \in BOOLEAN :
         \/ ui' = startLoading(ui, m)
         \/ m # Nothing /\ ui' = updateProgress(ui, m)
         \/ ui' = stopLoading(ui)
         \/ m # Nothing /\ ui' = setErrorMessage(ui, m)
         \/ ui' = clearError(ui)
         \/ ui' = setDebugData(ui, m)
         \/ ui' = clearDebugData(ui)
         \/ ui' = setIsDebugModalOpen(ui, d, o)
         \/ ui' = resetUIState(ui)
    /\ UNCHANGED <<img, job>>
    /\ UNCHANGED appFrame

\* onProductImageUpload: the uploader stays usable while a generation runs
OnProductImageUpload ==
    /\ \E file \in Images :
         img' = [img EXCEPT !.productImageFile = file,
                            !.materialMarkerPosition = NoPos,
                            !.resultImageUrl = NoInputs]
    /\ ui' = clearError(ui)
    /\ UNCHANGED job
    /\ UNCHANGED appFrame

\* onSceneImageUpload
OnSceneImageUpload ==
    /\ \E file \in Images :
         img' = [img EXCEPT !.sceneImageFile = file, !.sceneMask = Nothing,
                            !.resultImageUrl = NoInputs]
    /\ ui' = clearError(ui)
    /\ UNCHANGED job
    /\ UNCHANGED appFrame

\* onProductImageClear, from the clear button of an uploaded image
OnProductImageClear ==
    /\ img.productImageFile # NoFile
    /\ img' = [img EXCEPT !.productImageFile = NoFile, !.materialMarkerPosition = NoPos]
    /\ ui' = clearError(ui)
    /\ UNCHANGED job
    /\ UNCHANGED appFrame

\* onSceneImageClear
OnSceneImageClear ==
    /\ img.sceneImageFile # NoFile
    /\ img' = [img EXCEPT !.sceneImageFile = NoFile, !.sceneMask = Nothing]
    /\ ui' = clearError(ui)
    /\ UNCHANGED job
    /\ UNCHANGED appFrame

\* handleMaterialMarkerUpdate, from a click on the product image
OnMaterialMarkerUpdate ==
    /\ img.productImageFile # NoFile
    /\ \E p \in Cells : img' = [img EXCEPT !.materialMarkerPosition = p]
    /\ UNCHANGED <<ui, job>>
    /\ UNCHANGED appFrame

\* handleSceneMaskUpdate, from a stroke commit (a data URL) or the clear
\* button (null) of the scene uploader
OnSceneMaskUpdate ==
    /\ img.sceneImageFile # NoFile
    /\ \E m \in {"stroke", "strokes", Nothing} : img' = [img EXCEPT !.sceneMask = m]
    /\ UNCHANGED <<ui, job>>
    /\ UNCHANGED appFrame

\* onGenerate up to its await, from the Generate button (rendered when not
\* loading and both images are there, enabled by canGenerate)
OnGenerateClicked ==
    /\ ~ui.isLoading
    /\ areImagesUploaded(img)
    /\ canGenerate(img)
    /\ IF \/ img.productImageFile = NoFile \/ img.sceneImageFile = NoFile
          \/ img.materialMarkerPosition = NoPos \/ img.sceneMask \in {Nothing, ""}
       THEN /\ ui' = setErrorMessage(ui, "select")
            /\ UNCHANGED <<img, job>>
       ELSE /\ ui' = clearDebugData(startLoading(ui, Nothing))
            /\ img' = [img EXCEPT !.resultImageUrl = NoInputs]
            /\ job' = InputsOf(img)
    /\ UNCHANGED appFrame

\* applyMaterial reports progress through uiState.updateProgress
GenerationProgresses ==
    /\ job # NoInputs
    /\ \E m \in UiTexts \ {""} : ui' = updateProgress(ui, m)
    /\ UNCHANGED <<img, job>>
    /\ UNCHANGED appFrame

\* applyMaterial resolves: the result is stored, then finally stopLoading
GenerationResolves ==
    /\ job # NoInputs
    /\ img' = [img EXCEPT !.resultImageUrl = job]
    /\ ui' = stopLoading(setDebugData(ui, "debug"))
    /\ job' = NoInputs
    /\ UNCHANGED appFrame

\* applyMaterial rejects: the catch block, then finally stopLoading
GenerationRejects ==
    /\ job # NoInputs
    /\ ui' = stopLoading(setErrorMessage(ui, "failed"))
    /\ job' = NoInputs
    /\ UNCHANGED img
    /\ UNCHANGED appFrame

\* onInstantStart, from the link rendered while an image is missing
OnInstantStart ==
    /\ ~ui.isLoading
    /\ ~areImagesUploaded(img)
    /\ ui' = clearError(ui)
    /\ img' = ImgInitial
    /\ UNCHANGED job
    /\ UNCHANGED appFrame

\* onReset, from the result section
OnReset ==
    /\ img.resultImageUrl # NoInputs
    /\ ~ui.isLoading
    /\ img' = ImgInitial
    /\ ui' = resetUIState(ui)
    /\ UNCHANGED job
    /\ UNCHANGED appFrame

AppNext ==
    \/ OnProductImageUpload
    \/ OnSceneImageUpload
    \/ OnProductImageClear
    \/ OnSceneImageClear
    \/ OnMaterialMarkerUpdate
    \/ OnSceneMaskUpdate
    \/ OnGenerateClicked
    \/ GenerationProgresses
    \/ GenerationResolves
    \/ GenerationRejects
    \/ OnInstantStart
    \/ OnReset

----------------------------------------------------------------------------
(* onGenerate and applyMaterial: the analysis calls, run concurrently, then  *)
(* the final generation call; every call is an activation of                 *)
(* generateContentWithImage / generateContentWithTwoImages as above.         *)

Versions == {"parallel", "sequential"}
CallNames == {"material", "scene", "final"}

\* the analysis calls applyMaterial awaits before the final call: the parallel
\* version analyses material and scene together, the sequential one only the
\* material
AnalysisCalls(v) == IF v = "parallel" THEN {"material", "scene"} ELSE {"material"}

\* the function a call of applyMaterial goes through
CallFn(v, c) == IF c = "final" /\ v = "sequential" THEN "two" ELSE "one"

NoPrompt == [base |-> "none", toks |-> NoText]
NoCall == [pc |-> "Unused", toRead |-> 0, sent |-> 0, fails |-> 0, last |-> "none",
           err |-> NoError, seed |-> 0, lastSent |-> NoPrompt]
NoLocals == [attempts |-> 0, up |-> NoText, text |-> NoText, base |-> "none"]

\* variant: prompt, textPart and attempts live at module scope, shared by
\* every activation
FrameOfShared(c) == "material"

\* the activation record holding a call's prompt, uniquePrompt, textPart and
\* attempts: they are declared inside the function body, one set per call
FrameOf(c) == c

\* the activation is over: its locals are gone, and of its history only the
\* number of model calls and the last outcome are kept
Closed(r) == [r EXCEPT !.toRead = 0, !.fails = 0, !.seed = 0, !.lastSent = NoPrompt]

\* throw / rejection of the activation
CFail(r, l, e) ==
    [r |-> [Closed(r) EXCEPT !.pc = "Failed", !.err = e], l |-> NoLocals]

\* the activation returns its response and the caller extracts from it
CReturn(r, l) ==
    [r |-> [Closed(r) EXCEPT !.pc = "Returned"], l |-> NoLocals]

\* top of the while loop (EnterLoop, on a call record and its locals)
CEnter(f, r, l, a, txt) ==
    IF LoopGuard(a, maxAttempts(f))
    THEN [r |-> [r EXCEPT !.pc = "Sending", !.sent = Bump(@),
                          !.lastSent = [base |-> l.base, toks |-> txt]],
          l |-> [l EXCEPT !.attempts = a, !.text = txt]]
    ELSE CFail(r, l, RecitationError(maxAttempts(f)))

\* the catch block (Caught, on a call record and its locals)
CCaught(f, r, l, a, e) ==
    LET a2 == AfterCatch(a) IN
    IF Exhausted(a2, maxAttempts(f))
    THEN CFail(r, l, e)
    ELSE [r |-> [r EXCEPT !.pc = "Backoff"], l |-> [l EXCEPT !.attempts = a2]]

\* the RECITATION branch (Rejected, on a call record and its locals)
CRejected(f, r, l, a, salt, creativity) ==
    LET a1 == AfterRecitation(a) IN
    IF f = "one" /\ Exhausted(a1, maxAttempts(f))
    THEN CCaught(f, r, l, a1, RecitationError(a1))
    ELSE CEnter(f, r, l, a1, SaltedPrompt(f, l.up, salt, creativity))

\* variant: the first analysis to return lets applyMaterial go on
JoinedAny(a, cs) == \E d \in cs : a[d].pc = "Returned"

\* Promise.all resolves: every awaited analysis has returned its description
Joined(a, cs) == \A d \in cs : a[d].pc = "Returned"

\* variant: every failure is wrapped in a plain Error before it is shown
MessageForWrapped(e) == "generic"

\* the catch block of onGenerate: which message setErrorMessage receives
MessageFor(e) == IF e.type = "RecitationError" THEN "recitation" ELSE "generic"

\* What a step of call c, leaving the calls as in a2, means for applyMaterial:
\* a failed call rejects the await applyMaterial is suspended on; the last
\* analysis to return starts the final call; the final call returning ends
\* applyMaterial.
Settle(a2, c) ==
    IF apc = "Analysing" /\ c \in AnalysisCalls(version)
    THEN IF a2[c].pc = "Failed"
         THEN /\ apc' = "Failed"
              /\ aerr' = a2[c].err
              /\ failedBy' = c
              /\ an' = a2
         ELSE IF Joined(a2, AnalysisCalls(version))
         THEN /\ apc' = "Generating"
              /\ an' = [a2 EXCEPT !["final"].pc = "Prep"]
              /\ UNCHANGED <<aerr, failedBy>>
         ELSE /\ an' = a2
              /\ UNCHANGED <<apc, aerr, failedBy>>
    ELSE IF apc = "Generating" /\ c = "final" /\ a2[c].pc = "Failed"
    THEN /\ apc' = "Failed"
         /\ aerr' = a2[c].err
         /\ failedBy' = c
         /\ an' = a2
    ELSE IF apc = "Generating" /\ c = "final" /\ a2[c].pc = "Returned"
    THEN /\ apc' = "Done"
         /\ an' = a2
         /\ UNCHANGED <<aerr, failedBy>>
    ELSE /\ an' = a2
         /\ UNCHANGED <<apc, aerr, failedBy>>

\* a step of call c ends with the call as in x.r and its locals as in x.l
CallStep(c, x) ==
    /\ loc' = [loc EXCEPT ![FrameOf(c)] = x.l]
    /\ Settle([an EXCEPT ![c] = x.r], c)
    /\ UNCHANGED <<version, shown, loading>>

ApplyParked ==
    /\ version = "parallel"
    /\ apc = "Idle"
    /\ an = [c \in CallNames |-> NoCall]
    /\ loc = [c \in CallNames |-> NoLocals]
    /\ aerr = NoError
    /\ failedBy = "none"
    /\ shown = "none"
    /\ loading = FALSE

ApplyInit ==
    /\ OrchInit
    /\ MaskParked
    /\ AppParked
    /\ EdgeParked
    /\ GeoParked
    /\ version \in Versions
    /\ apc = "Idle"
    /\ an = [c \in CallNames |-> NoCall]
    /\ loc = [c \in CallNames |-> NoLocals]
    /\ aerr = NoError
    /\ failedBy = "none"
    /\ shown = "none"
    /\ loading = FALSE

\* onGenerate: validation, then startLoading and applyMaterial, which first
\* awaits the debug images.
OnGenerate ==
    /\ apc = "Idle"
    /\ \E valid \in BOOLEAN :
         IF ~valid
         THEN /\ shown' = "validation"
              /\ loading' = FALSE
              /\ apc' = apc
         ELSE /\ shown' = "none"
              /\ loading' = TRUE
              /\ apc' = "Setup"
    /\ UNCHANGED <<version, an, loc, aerr, failedBy>>
    /\ UNCHANGED applyFrame

\* The debug images are ready: applyMaterial starts its analysis calls, which
\* run up to their first await.
SetupDone ==
    /\ apc = "Setup"
    /\ apc' = "Analysing"
    /\ an' = [c \in CallNames |->
                 IF c \in AnalysisCalls(version) THEN [an[c] EXCEPT !.pc = "Prep"]
                 ELSE an[c]]
    /\ UNCHANGED <<version, loc, aerr, failedBy, shown, loading>>
    /\ UNCHANGED applyFrame

\* Drawing or reading a debug image fails: applyMaterial rejects.
SetupFails ==
    /\ apc = "Setup"
    /\ apc' = "Failed"
    /\ aerr' = GenericError
    /\ failedBy' = "setup"
    /\ UNCHANGED <<version, an, loc, shown, loading>>
    /\ UNCHANGED applyFrame

\* The input image of call c is ready: generateContentWith* is entered
\* (getAIClient, uniquePrompt, textPart) and awaits fileToPart.
CallPrepared(c) ==
    /\ an[c].pc = "Prep"
    /\ \E sd \in Tokens :
         IF getAIClientThrows(apiKey)
         THEN CallStep(c, CFail(an[c], loc[FrameOf(c)], GenericError))
         ELSE CallStep(c, [r |-> [an[c] EXCEPT !.pc = "Reading", !.seed = sd,
                                               !.toRead = FileParts(CallFn(version, c))],
                           l |-> [attempts |-> 0, up |-> UniquePromptOf(sd),
                                  text |-> UniquePromptOf(sd), base |-> c]])
    /\ UNCHANGED applyFrame

\* A fileToPart of call c resolves; after the last one the loop is entered.
CallPartRead(c) ==
    /\ an[c].pc = "Reading"
    /\ LET r == [an[c] EXCEPT !.toRead = @ - 1]
           l == loc[FrameOf(c)]
       IN  IF an[c].toRead = 1
           THEN CallStep(c, CEnter(CallFn(version, c), r, l, 0, l.text))
           ELSE CallStep(c, [r |-> r, l |-> l])
    /\ UNCHANGED applyFrame

\* Preparing the input image, or a fileToPart, of call c fails.
CallPrepFails(c) ==
    /\ an[c].pc \in {"Prep", "Reading"}
    /\ CallStep(c, CFail(an[c], loc[FrameOf(c)], GenericError))
    /\ UNCHANGED applyFrame

\* The model answers call c; a response that is returned is handed to
\* extractTextFromResponse (analysis) or extractImageFromResponse (final).
CallResponds(c) ==
    /\ an[c].pc = "Sending"
    /\ \E fin \in FinishReasons, t \in BOOLEAN, im \in BOOLEAN :
         \* a rejected answer carries no parts
         /\ fin = "RECITATION" => (~t /\ ~im)
         /\ LET resp == Response(an[c].sent, fin, t, im)
                l == loc[FrameOf(c)]
                r == [an[c] EXCEPT !.last = OutcomeOf(resp),
                                   !.fails = IF OutcomeOf(resp) = "recitation"
                                             THEN Bump(@) ELSE @]
                e == IF c = "final" THEN extractImageFromResponse(resp)
                     ELSE extractTextFromResponse(resp)
            IN  IF IsRecitation(resp)
                THEN \E salt \in Tokens, creativity \in Tokens :
                        CallStep(c, CRejected(CallFn(version, c), r, l, l.attempts,
                                              salt, creativity))
                ELSE IF e = NoError
                THEN CallStep(c, CReturn(r, l))
                ELSE CallStep(c, CFail(r, l, e))
    /\ UNCHANGED applyFrame

\* The model call of c rejects.
CallThrows(c) ==
    /\ an[c].pc = "Sending"
    /\ LET l == loc[FrameOf(c)]
           r == [an[c] EXCEPT !.last = "error", !.fails = Bump(@)]
       IN  CallStep(c, CCaught(CallFn(version, c), r, l, l.attempts, TransportError))
    /\ UNCHANGED applyFrame

\* The 1 s timer of call c fires.
CallBackoffElapsed(c) ==
    /\ an[c].pc = "Backoff"
    /\ LET l == loc[FrameOf(c)]
       IN  CallStep(c, CEnter(CallFn(version, c), an[c], l, l.attempts, l.text))
    /\ UNCHANGED applyFrame

\* applyMaterial has settled: onGenerate shows the message for the error it
\* caught, if any, and stops loading.
OnGenerateSettles ==
    /\ apc \in {"Done", "Failed"}
    /\ loading
    /\ shown' = IF apc = "Failed" THEN MessageFor(aerr) ELSE shown
    /\ loading' = FALSE
    /\ UNCHANGED <<version, apc, an, loc, aerr, failedBy>>
    /\ UNCHANGED applyFrame

ApplyNext ==
    \/ OnGenerate
    \/ SetupDone
    \/ SetupFails
    \/ \E c \in CallNames : CallPrepared(c)
    \/ \E c \in CallNames : CallPartRead(c)
    \/ \E c \in CallNames : CallPrepFails(c)
    \/ \E c \in CallNames : CallResponds(c)
    \/ \E c \in CallNames : CallThrows(c)
    \/ \E c \in CallNames : CallBackoffElapsed(c)
    \/ OnGenerateSettles

ApplySpec == ApplyInit /\ [][ApplyNext]_<<vars, applyVars>>

----------------------------------------------------------------------------
\* The scene uploader, from the mounted App without a scene image
MaskInit ==
    /\ OrchInit
    /\ ApplyParked
    /\ MaskParked
    /\ AppParked
    /\ EdgeParked
    /\ GeoParked

MaskSpec == MaskInit /\ [][MaskNext]_maskVars

\* getScaledCoords over the bounded inputs
CoordsInit ==
    /\ OrchInit
    /\ ApplyParked
    /\ MaskParked
    /\ AppParked
    /\ EdgeParked
    /\ coordsIn \in CoordsInputs
    /\ coordsOut = NoCoords
    /\ cropIn = NoCropIn
    /\ cropOut = NoCrop
    /\ fitIn = NoFitIn
    /\ fitOut = NoFit

CoordsNext == PointerMapped

CoordsSpec == CoordsInit /\ [][CoordsNext]_geoVars

\* cropSquareAroundMarker over the bounded inputs
CropInit ==
    /\ OrchInit
    /\ ApplyParked
    /\ MaskParked
    /\ AppParked
    /\ EdgeParked
    /\ coordsIn = NoCoordsIn
    /\ coordsOut = NoCoords
    /\ cropIn \in CropInputs
    /\ cropOut = NoCrop
    /\ fitIn = NoFitIn
    /\ fitOut = NoFit

CropNext == SquareCropped

CropSpec == CropInit /\ [][CropNext]_geoVars

\* resizeImage / createModelInputImage / cropToOriginalAspectRatio over the
\* bounded inputs
FitInit ==
    /\ OrchInit
    /\ ApplyParked
    /\ MaskParked
    /\ AppParked
    /\ EdgeParked
    /\ coordsIn = NoCoordsIn
    /\ coordsOut = NoCoords
    /\ cropIn = NoCropIn
    /\ cropOut = NoCrop
    /\ fitIn \in FitInputs
    /\ fitOut = NoFit

FitNext == PaddedAndCropped

FitSpec == FitInit /\ [][FitNext]_geoVars

\* One run of drawRedBordersFromMask on a mask drawn at the canvas size
EdgeInit ==
    /\ OrchInit
    /\ ApplyParked
    /\ MaskParked
    /\ AppParked
    /\ GeoParked
    /\ data \in Masks
    /\ edges = <<>>
    /\ visited = {}
    /\ paths = <<>>
    /\ current = NoPixel
    /\ nextEdge = 0
    /\ tpc = "scan"

EdgeSpec == EdgeInit /\ [][EdgeNext]_edgeVars

\* the run is synchronous from the scan on: every step of it is taken
FairEdgeSpec == EdgeSpec /\ WF_edgeVars(EdgeNext)

\* App mounted: both hooks in their initial state, nothing in flight
AppInit ==
    /\ OrchInit
    /\ ApplyParked
    /\ MaskParked
    /\ GeoParked
    /\ EdgeParked
    /\ AppParked

\* useUIState on its own
UiSpec == AppInit /\ [][UiNext]_appVars

AppSpec == AppInit /\ [][AppNext]_appVars

Init ==
    /\ OrchInit
    /\ ApplyParked
    /\ MaskParked
    /\ AppParked
    /\ EdgeParked
    /\ GeoParked

Next ==
    \/ Invoke
    \/ PartRead
    \/ PartReadFails
    \/ ModelResponds
    \/ ModelThrows
    \/ BackoffElapsed
    \/ Extract

Spec == Init /\ [][Next]_vars

\* Every model call and every timer eventually completes; the caller's
\* synchronous steps run.
FairSpec == Spec /\ WF_vars(Next)

----------------------------------------------------------------------------
TypeOK ==
    /\ pc \in {"Idle", "Reading", "Sending", "Backoff", "Succeeded", "Failed"}
    /\ attempts \in 0..(MaxAttemptsImage + 1)
    /\ calls \in 0..MaxHist
    /\ Len(outcomes) <= MaxHist

----------------------------------------------------------------------------
(* Properties of the retry loop *)

Last(s) == s[Len(s)]
Budget == IF fn = "one" THEN 5 ELSE 3
OnlyRecitations == \A i \in 1..Len(outcomes) : outcomes[i] = "recitation"
Mixed == "recitation" \in {outcomes[i] : i \in 1..Len(outcomes)}
         /\ "error" \in {outcomes[i] : i \in 1..Len(outcomes)}

\* C1: generateContentWithImage against a model that answers every call with
\* RECITATION: while fewer than 5 answers have arrived the next call is in
\* flight, there are never more than 5 calls, and after the 5th answer the
\* invocation has failed with a RecitationError whose attempts field is 5.
ExhaustionScenario ==
    (fn = "one" /\ calls >= 1 /\ OnlyRecitations) =>
        /\ calls <= 5
        /\ Len(outcomes) < 5 => (pc = "Sending" /\ calls = Len(outcomes) + 1)
        /\ Len(outcomes) >= 5 =>
              /\ pc = "Failed"
              /\ calls = 5
              /\ err.type = "RecitationError"
              /\ err.hasAttempts
              /\ err.attempts = 5

ExhaustionReached ==
    /\ fn = "one"
    /\ OnlyRecitations
    /\ Len(outcomes) = 5
    /\ pc = "Failed"

\* C2: generateContentWithImage against a model that answers RECITATION on
\* attempts 1 and 2 and normally on attempt 3: the invocation has returned the
\* response of call 3 after exactly 3 calls, and the text sent on attempt 3
\* differs from the text sent on attempt 1.
RetryThenSuccessScenario ==
    (fn = "one" /\ outcomes = <<"recitation", "recitation", "ok">>) =>
        /\ pc = "Succeeded"
        /\ calls = 3
        /\ result.id = 3
        /\ result.finish # "RECITATION"
        /\ lastSent # firstSent

RetryThenSuccessReached ==
    /\ fn = "one"
    /\ outcomes = <<"recitation", "recitation", "ok">>
    /\ result.id = 3

\* C3: whatever the model does, generateContentWithImage issues at most 5
\* calls and generateContentWithTwoImages at most 3, and while the loop runs
\* every completed call, rejected or failed, has consumed one unit of the
\* single attempts counter.
AttemptBudget ==
    /\ calls <= Budget
    /\ pc \in {"Sending", "Backoff"} => attempts = Len(outcomes)
    /\ pc = "Sending" => calls = attempts + 1
    /\ pc = "Backoff" => calls = attempts

AttemptBudgetReached ==
    /\ fn = "two"
    /\ calls = 3
    /\ Mixed
    /\ pc = "Failed"

\* C4 as claimed: whenever the budget is exhausted the failure is a typed
\* failure carrying the attempt count, also when the last attempt ended in a
\* transport error.
ExhaustedFailureCarriesCount ==
    (pc = "Failed" /\ calls >= 1) => (err.hasAttempts /\ err.attempts = calls)

\* C4 as amended: when the budget is exhausted by a rejection the failure is
\* a RecitationError carrying the budget as attempt count; when the last
\* attempt ended in a transport error that error itself is rethrown, and it
\* carries no attempt count.
ExhaustedFailureByKind ==
    (pc = "Failed" /\ calls >= 1) =>
        /\ calls = Budget
        /\ Last(outcomes) = "recitation" => err = RecitationError(Budget)
        /\ Last(outcomes) = "error" => (err = TransportError /\ ~err.hasAttempts)

ExhaustedByTransportError ==
    /\ pc = "Failed"
    /\ calls = Budget
    /\ Last(outcomes) = "error"
    /\ "recitation" \in {outcomes[i] : i \in 1..Len(outcomes)}

\* the step completes a model call with the given outcome
Completes(kind) ==
    /\ Len(outcomes') = Len(outcomes) + 1
    /\ Last(outcomes') = kind

\* C5: a transport error on an attempt that is not the last of the budget
\* starts the 1 s timer and the next call is issued only when it has fired;
\* a rejection that is not the last attempt is followed at once, with no
\* timer, by the next call, whose text is salted; no timer is started by a
\* step that ends the invocation in failure.
BackoffDiscipline ==
    [][ /\ (Completes("error") /\ Len(outcomes') < Budget) =>
              (pc' = "Backoff" /\ waits' = waits + 1 /\ calls' = calls)
        /\ pc = "Backoff" =>
              (pc' = "Sending" /\ calls' = calls + 1 /\ waits' = waits)
        /\ (Completes("recitation") /\ Len(outcomes') < Budget) =>
              /\ pc' = "Sending"
              /\ waits' = waits
              /\ calls' = calls + 1
              /\ lastSent' # uniquePrompt
              /\ Len(lastSent') > Len(uniquePrompt)
        /\ Completes("recitation") => waits' = waits
        /\ (pc # "Failed" /\ pc' = "Failed") => (waits' = waits /\ pc # "Backoff")
      ]_vars

BackoffDisciplineReached ==
    /\ pc = "Sending"
    /\ waits >= 1
    /\ Len(outcomes) >= 2
    /\ Last(outcomes) = "recitation"
    /\ "error" \in {outcomes[i] : i \in 1..Len(outcomes)}
    /\ lastSent # uniquePrompt

\* C6: a rejection or transport error that is not the last attempt of the
\* budget leads to the next model call (at once, or through the timer, which
\* can always fire) and no error is raised; a running loop fails only with
\* the budget used up; after Succeeded or Failed no call is issued.
StateMachine ==
    /\ [][ /\ (Completes("recitation") /\ Len(outcomes') < Budget) =>
                 (pc' = "Sending" /\ calls' = calls + 1 /\ err' = NoError)
           /\ (Completes("error") /\ Len(outcomes') < Budget) =>
                 (pc' = "Backoff" /\ err' = NoError)
           /\ pc = "Backoff" =>
                 (pc' = "Sending" /\ calls' = calls + 1 /\ err' = NoError)
           /\ (pc \in {"Sending", "Backoff"} /\ pc' = "Failed") =>
                 (Len(outcomes') = Budget /\ calls' = Budget)
           /\ pc \in {"Succeeded", "Failed"} =>
                 (pc' = pc /\ calls' = calls /\ err' = err /\ result' = result)
         ]_vars
    /\ [](pc = "Backoff" => ENABLED BackoffElapsed)

StateMachineReached ==
    /\ pc = "Failed"
    /\ fn = "one"
    /\ Mixed
    /\ waits >= 2

\* C7: a RecitationError raised by either function carries as attempts the
\* number of model calls made in the invocation, whatever mix of rejections
\* and transport errors came before.
RecitationErrorCountsCalls ==
    (pc = "Failed" /\ err.type = "RecitationError") =>
        (err.hasAttempts /\ err.attempts = calls /\ err.attempts = Len(outcomes))

RecitationErrorAfterMix ==
    /\ pc = "Failed"
    /\ err.type = "RecitationError"
    /\ fn = "one"
    /\ outcomes[1] = "error"
    /\ outcomes[2] = "recitation"

\* C8: when every model call, timer and file conversion completes, every
\* invocation ends, by returning a response or by raising an error.
Terminates == <>(pc \in {"Succeeded", "Failed"})

LongestRunEnded ==
    /\ pc = "Failed"
    /\ fn = "one"
    /\ calls = 5
    /\ waits = 4

NoKeyFailsAtOnce ==
    ~apiKey =>
        /\ pc \in {"Idle", "Failed"}
        /\ pc = "Failed" => err = GenericError
        /\ calls = 0
        /\ waits = 0
        /\ progress = <<>>
        /\ outcomes = <<>>
        /\ attempts = 0

NoKeyFailed ==
    /\ ~apiKey
    /\ pc = "Failed"
    /\ fn = "two"
    /\ onProgress

----------------------------------------------------------------------------
(* Properties of onGenerate / applyMaterial *)

Running(c) == an[c].pc \in {"Sending", "Backoff"}

\* C11: once onGenerate has handled a failed applyMaterial, the message shown
\* is the recitation message exactly when the call that made applyMaterial
\* fail ended on a recitation rejection, and the generic "Failed to generate
\* the image" message for every other failure.
FailureMessageByKind ==
    (apc = "Failed" /\ ~loading) =>
        /\ shown \in {"recitation", "generic"}
        /\ shown = "recitation" <=>
              (failedBy \in CallNames /\ an[failedBy].last = "recitation")

RecitationMessageShown ==
    /\ apc = "Failed"
    /\ ~loading
    /\ version = "sequential"
    /\ failedBy = "final"
    /\ an["final"].sent = 3
    /\ shown = "recitation"

\* C12: while the analysis calls run side by side, each call's counter equals
\* the number of rejections and errors that call itself received, each call
\* has issued one model call per own failure (plus the one in flight), the
\* text it sends is built from its own prompt and its own session token, and a
\* step of one call leaves the locals of every other call as they were.
OwnCounterAndPrompt ==
    /\ [](\A c \in CallNames :
            Running(c) =>
               /\ loc[c].attempts = an[c].fails
               /\ an[c].sent = an[c].fails + (IF an[c].pc = "Sending" THEN 1 ELSE 0)
               /\ loc[c].base = c
               /\ loc[c].up = <<an[c].seed>>
               /\ an[c].lastSent.base = c
               /\ an[c].lastSent.toks[1] = an[c].seed
               /\ an[c].pc = "Sending" => an[c].lastSent.toks = loc[c].text)
    /\ [][\A c \in CallNames : an'[c] = an[c] => loc'[c] = loc[c]]_<<vars, applyVars>>

AnalysesInterleaved ==
    /\ version = "parallel"
    /\ an["material"].pc = "Sending"
    /\ an["scene"].pc = "Backoff"
    /\ an["material"].fails = 3
    /\ an["scene"].fails = 1
    /\ an["material"].lastSent.toks # <<an["material"].seed>>

\* C13: the final generation call is started only when every analysis call
\* has returned its description; as soon as an analysis call has failed,
\* applyMaterial has failed and the final call is never started.
FinalAfterAnalyses ==
    /\ an["final"].pc # "Unused" =>
          \A d \in AnalysisCalls(version) : an[d].pc = "Returned"
    /\ (\E d \in AnalysisCalls(version) : an[d].pc = "Failed") =>
          (apc = "Failed" /\ an["final"].pc = "Unused" /\ an["final"].sent = 0)

FinalCallIssued ==
    /\ version = "parallel"
    /\ an["final"].sent >= 1
    /\ an["material"].sent >= 2
    /\ an["scene"].sent >= 2

----------------------------------------------------------------------------
(* Properties of the scene uploader *)

\* C14: a committed mask has the pixel size of the scene image it belongs to,
\* and a mask image is drawn without scaling only on a canvas of its own size.
MaskSizedAsImage ==
    /\ [](sceneMask # NoMask => sceneMask.dim = DimOf(sceneImageFile))
    /\ [][(/\ maskLoads' # maskLoads
           /\ maskLoads' \subseteq maskLoads
           /\ sceneImageFile' = sceneImageFile)
          => \A m \in maskLoads \ maskLoads' : m.dim = canvas.dim]_maskVars

\* C15: between startDrawing and stopDrawing the canvas changes only by a
\* stroke segment of the gesture: its size stays, nothing is erased, and what
\* is added lies between the last point and the new one; no load callback and
\* no effect run takes part in the step.
GestureWritesOnly ==
    [][(isDrawing /\ isDrawing' /\ canvas' # canvas)
       => /\ UNCHANGED <<imgNatural, imgPending, onload, maskLoads>>
          /\ canvas'.dim = canvas.dim
          /\ canvas.pix \subseteq canvas'.pix
          /\ canvas'.pix \subseteq canvas.pix \cup {lastPos, lastPos'}]_maskVars

\* C16: from handleClearMask until the next gesture begins the canvas has no
\* selected pixel and the mask held by the caller is null.
ClearedStaysTransparent ==
    cleared => (canvas.pix = {} /\ sceneMask = NoMask)

\* C17: on a loaded image with no load callback outstanding, the pointer-down
\* that begins a gesture leaves a selected pixel on the canvas (the dot a tap
\* commits).
DownDrawsDot ==
    [][(/\ ~isDrawing
        /\ isDrawing'
        /\ imgNatural = DimOf(sceneImageFile)
        /\ imgPending = NoFile
        /\ maskLoads = {})
       => canvas'.pix # {}]_maskVars

----------------------------------------------------------------------------
(* Properties of the geometry functions *)

Outside(in) ==
    \/ in.cx < RectLeft
    \/ in.cx > RectLeft + in.rW
    \/ in.cy < RectTop
    \/ in.cy > RectTop + in.rH

\* C18: with the elements in place, getScaledCoords returns null for a
\* pointer outside the display element's bounding box and a coordinate for a
\* pointer inside it.
OutsideGivesNull ==
    (coordsOut.done /\ coordsIn.present) =>
        (Outside(coordsIn) <=> coordsOut.value = NullCoords)

\* where the square stands on one axis: centred on the marker within the
\* rounding when that fits, pushed to the near edge otherwise
AxisPlaced(x, p2, len, side) ==
    IF p2 < side THEN x = 0
    ELSE IF p2 > 2 * len - side THEN x = len - side
    ELSE (2 * x + side - p2) \in {-1, 0, 1}

\* C19: the square cropSquareAroundMarker takes has the side
\* round(clamp(sizeFraction, 0.1, 1) * min(W, H)), lies inside the image, is
\* centred on the marker when that fits and is shifted to the edge otherwise.
CropSquareInside ==
    cropOut.done =>
        /\ cropOut.size = Round(Min(cropIn.W, cropIn.H) * Min(10, Max(1, cropIn.f10)), 10)
        /\ 0 <= cropOut.x
        /\ 0 <= cropOut.y
        /\ cropOut.x + cropOut.size <= cropIn.W
        /\ cropOut.y + cropOut.size <= cropIn.H
        /\ AxisPlaced(cropOut.x, cropIn.px2, cropIn.W, cropOut.size)
        /\ AxisPlaced(cropOut.y, cropIn.py2, cropIn.H, cropOut.size)

CropShifted ==
    /\ cropOut.done
    /\ cropIn.f10 = 4
    /\ cropIn.px2 < 0
    /\ cropIn.py2 > 2 * cropIn.H
    /\ cropOut.size > 0
    /\ cropOut.size < Min(cropIn.W, cropIn.H)
    /\ cropOut.x = 0
    /\ cropOut.y = cropIn.H - cropOut.size

\* C20: the rectangle cropToOriginalAspectRatio takes from the square is the
\* rectangle resizeImage (and, at the model dimension, createModelInputImage)
\* drew the image into: centred, of aspect ratio W / H; the cropped canvas
\* is that rectangle's size with less than one pixel cut from each side.
CropMatchesPadding ==
    fitOut.done =>
        LET c == fitOut.content IN
        /\ c = fitOut.resized
        /\ fitIn.T = ModelDimension => c = fitOut.input
        /\ c.w * fitIn.H = c.h * fitIn.W
        /\ 2 * c.x + c.w = fitIn.T * c.den
        /\ 2 * c.y + c.h = fitIn.T * c.den
        /\ c.w - fitOut.width * c.den \in 0..(c.den - 1)
        /\ c.h - fitOut.height * c.den \in 0..(c.den - 1)

CropRounded ==
    /\ fitOut.done
    /\ fitIn.T = ModelDimension
    /\ fitIn.W > fitIn.H
    /\ fitOut.content.y > 0
    /\ fitOut.content.h % fitOut.content.den # 0
    /\ fitOut.width = ModelDimension

----------------------------------------------------------------------------
(* Properties of drawRedBordersFromMask *)

\* the scan of lines 51-80 has run
Scanned == tpc \in {"forEach", "walk", "done"}

\* the pixels of Rect(x0, y0, x1, y1) on one of its four sides
Perimeter(x0, y0, x1, y1) ==
    {p \in Rect(x0, y0, x1, y1) : p[1] \in {x0, x1} \/ p[2] \in {y0, y1}}

\* the bounding box of a mask that is not empty
Left(d) == CHOOSE x \in 0 .. CanvasWidth - 1 : \A p \in d : x <= p[1] /\ \E q \in d : q[1] = x
Right(d) == CHOOSE x \in 0 .. CanvasWidth - 1 : \A p \in d : p[1] <= x /\ \E q \in d : q[1] = x
Top(d) == CHOOSE y \in 0 .. CanvasHeight - 1 : \A p \in d : y <= p[2] /\ \E q \in d : q[2] = y
Bottom(d) == CHOOSE y \in 0 .. CanvasHeight - 1 : \A p \in d : p[2] <= y /\ \E q \in d : q[2] = y

\* one filled rectangle that touches no border row or column of the canvas
IsInnerRectangle(d) ==
    /\ d # {}
    /\ d = Rect(Left(d), Top(d), Right(d), Bottom(d))
    /\ 1 <= Left(d) /\ Right(d) <= CanvasWidth - 2
    /\ 1 <= Top(d) /\ Bottom(d) <= CanvasHeight - 2

\* C21: when the mask is one filled rectangle that touches no border row or
\* column of the canvas, the edge pixels found are exactly the pixels on the
\* rectangle's four sides: none of them is missing, no other pixel is there.
RectanglePerimeterFound ==
    (Scanned /\ IsInnerRectangle(data))
        => EdgeSet(edges) = Perimeter(Left(data), Top(data), Right(data), Bottom(data))

\* a rectangle with pixels off its sides was scanned: those are no edges
RectangleInsideScanned ==
    /\ tpc = "done"
    /\ \E x0 \in 1 .. CanvasWidth - 2, x1 \in 1 .. CanvasWidth - 2,
          y0 \in 1 .. CanvasHeight - 2, y1 \in 1 .. CanvasHeight - 2 :
            /\ x0 + 2 <= x1 /\ y0 + 2 <= y1
            /\ data = Rect(x0, y0, x1, y1)
            /\ <<x0 + 1, y0 + 1>> \notin EdgeSet(edges)
            /\ <<x0, y0>> \in EdgeSet(edges)

\* the mask is transparent at all 8 neighbours of p
AloneAt(d, p) == \A i \in 1 .. 8 : Moved(p, Neighbors[i]) \notin d

SelectionHasEdge ==
    (Scanned /\ data # {}) => Len(edges) > 0

\* p and q are 8-adjacent
Adjacent(p, q) == \E i \in 1 .. 8 : Moved(p, Neighbors[i]) = q

\* the places of pixel p in the paths
PlacesOf(p) ==
    {pl \in (1 .. Len(paths)) \X (1 .. Len(edges)) :
        pl[2] <= Len(paths[pl[1]]) /\ paths[pl[1]][pl[2]] = p}

\* every edge pixel is on exactly one path, once, and the paths hold nothing else
EdgesPartitioned ==
    /\ \A i \in 1 .. Len(edges) : Cardinality(PlacesOf(edges[i])) = 1
    /\ \A k \in 1 .. Len(paths) : \A i \in 1 .. Len(paths[k]) :
            paths[k][i] \in EdgeSet(edges)

\* consecutive pixels of a path are 8-adjacent
PathsConnected ==
    \A k \in 1 .. Len(paths) : \A i \in 1 .. Len(paths[k]) - 1 :
        Adjacent(paths[k][i], paths[k][i + 1])

\* every edge pixel next to the end of path k was visited when the path
\* ended: it is on path k or on an earlier one
PathsEndWhereStuck ==
    \A k \in 1 .. Len(paths) : \A n \in 1 .. 8 :
        LET q == Moved(paths[k][Len(paths[k])], Neighbors[n])
        IN  q \in EdgeSet(edges) =>
                \E j \in 1 .. k : \E i \in 1 .. Len(paths[j]) : paths[j][i] = q

\* C24: the path tracing comes to an end, and then every edge pixel is on
\* exactly one path, consecutive pixels of a path are 8-adjacent edge pixels,
\* and each path ends at a pixel that had no unvisited edge pixel next to it.
TracingEndsWithPartition ==
    /\ <>(tpc = "done")
    /\ [](tpc = "done" => (EdgesPartitioned /\ PathsConnected /\ PathsEndWhereStuck))

\* a run ended with a path of three pixels or more and a second path that
\* begins next to a pixel of the first
BranchTracedAsTwoPaths ==
    /\ tpc = "done"
    /\ Len(paths) >= 2
    /\ Len(paths[1]) >= 3
    /\ \E i \in 1 .. Len(paths[1]) : Adjacent(paths[1][i], paths[2][1])

----------------------------------------------------------------------------
(* Properties of the retry loop: what is resubmitted, when the caller is
   notified, what is returned *)

\* C23: each model call issued after a recitation rejection is given a
\* smaller part of the source image than the call before it, and never less
\* than 0.2 of it (fractions in hundredths).
CropShrinksOnResubmission ==
    fn = "two" =>
        \A k \in 2 .. Len(sentCrops) :
            (k - 1 <= Len(outcomes) /\ outcomes[k - 1] = "recitation")
                => (sentCrops[k] < sentCrops[k - 1] /\ sentCrops[k] >= 20)

\* C25: with a progress callback, the notifications are those of attempts
\* 2, 3, ... in order, one less than the model calls issued; the one naming
\* attempt k is emitted in the step that issues the k-th call, after the
\* outcome of attempt k - 1 was classified. Without a callback there is none.
NotifiedBeforeEachRetry ==
    /\ [](/\ (onProgress /\ calls >= 1) => Len(progress) = calls - 1
          /\ ~onProgress => progress = <<>>
          /\ \A i \in 1 .. Len(progress) :
                progress[i] = i + 1 /\ Len(outcomes) >= i)
    /\ [][progress' # progress =>
            /\ calls' = calls + 1
            /\ progress' = Append(progress, calls')
            /\ Len(outcomes') = calls
            /\ pc' = "Sending"]_vars

\* the third call was issued after a rejected and a failed attempt, the
\* caller having been told of attempts 2 and 3
NotifiedTwice ==
    /\ onProgress
    /\ pc = "Sending"
    /\ calls = 3
    /\ progress = <<2, 3>>
    /\ outcomes = <<"recitation", "error">>

\* C26: a response handed back to the caller never has the finish reason
\* RECITATION, so the caller's extractImageFromResponse never throws its own
\* RecitationError (the one with attempts = 1): it returns the image or
\* throws a plain Error.
ReturnedNeverRecitation ==
    /\ pc = "Succeeded" => result.finish # "RECITATION"
    /\ (extracted.done /\ extractor = "image") =>
            /\ extracted.error.type # "RecitationError"
            /\ extracted.error = NoError <=> result.image

\* applyMaterial's call came back after a rejected attempt and the image was
\* taken from the response
ImageExtractedAfterRejection ==
    /\ fn = "two"
    /\ extractor = "image"
    /\ extracted.done
    /\ extracted.error = NoError
    /\ outcomes = <<"recitation", "ok">>

----------------------------------------------------------------------------
(* Properties of the scene uploader: what a stroke commit reports *)

\* C28: a scene mask held by useImageState (reported by stopDrawing, so not
\* null) has at least one selected pixel.
CommittedMaskHasSelection ==
    sceneMask # NoMask => sceneMask.pix # {}

----------------------------------------------------------------------------
(* Properties of App and of useUIState *)

\* at most one applyMaterial is in flight, and the spinner shows while it is
OneJobWhileLoading == job # NoInputs => ui.isLoading

\* C27: a result image that is displayed (resultImageUrl set, not loading)
\* was generated from the product image, marker, scene image and scene mask
\* now in useImageState.
ShownResultIsOfCurrentInputs ==
    (img.resultImageUrl # NoInputs /\ ~ui.isLoading)
        => img.resultImageUrl = InputsOf(img)

\* C29: isLoading and a non-null error never hold together.
NeverLoadingWithError ==
    ~(ui.isLoading /\ ui.error # Nothing)

\* an error is shown after a load that reported progress
ErrorAfterLoading ==
    /\ ~ui.isLoading
    /\ ui.error = "retrying"
    /\ ui.currentProgressMessage = "retrying"
    /\ ui.open # {}

====
